---------------------------- MODULE Spec2Model ----------------------------
(***************************************************************************)
(* DAION build orchestrator (src/App.tsx, src/services/geminiService.ts).  *)
(*                                                                         *)
(* The React component App owns the Project (`state`), the Conversation    *)
(* (`messages`), the metrics series (`metricsData`) and the cancellation   *)
(* flag (`abortController`).  The handlers are async functions: each piece *)
(* of a handler between two `await`s runs atomically on the JavaScript     *)
(* event loop, so every action below is one such piece: the resumption of  *)
(* one suspended invocation with the collaborator's answer, up to its next *)
(* `await` or its end, or one user event.  setState(prev => ...) updates   *)
(* are applied in program order to the live state; a handler's own         *)
(* `state` is the snapshot of the render that created it, which the model  *)
(* keeps in the invocation (cfiles, wasCompleted).                         *)
(***************************************************************************)
EXTENDS Integers, Sequences, FiniteSets, Bags, TLC

(* ------------------------------ bounds -------------------------------- *)
\* user events (send, test, STOP, New Project) in a run
MaxUserActions == 3
\* artifacts a plan may name
MaxPlanFiles == 2
\* entries of changedFiles in a refinement response
MaxChanges == 2
\* messages sent in a run where they arrive in every phase
MaxSends == 2
\* user events in a run whose invocations are required to finish
MaxLiveActions == 2
\* artifacts of the plan in the runs that look at the refactor targets
MaxTargetFiles == 4
\* manual edits in the runs where the user edits artifacts during a build
MaxEdits == 2

(* ------------------------- program constants -------------------------- *)
\* a budget of one more pass
MutMAX_ITERATIONS == 3 + 1

\* const MAX_ITERATIONS = 3, the budget of the optimization loop
MAX_ITERATIONS == 3

IDLE == "IDLE"
PLANNING == "PLANNING"
CODING == "CODING"
TESTING == "TESTING"
REFINING == "REFINING"
COMPLETED == "COMPLETED"
FAILED == "FAILED"
STOPPED == "STOPPED"

AgentStatus == {IDLE, PLANNING, CODING, TESTING, REFINING, COMPLETED, FAILED, STOPPED}

\* any other error a collaborator call rejects with
ServiceError == "ServiceError"

NoReport == "null"

INITIAL_STATE ==
  [ files |-> <<>>, testResults |-> <<>>, qualityScore |-> 0, iteration |-> 0,
    logs |-> EmptyBag, status |-> IDLE, report |-> NoReport ]

(* ------------------------------ inputs -------------------------------- *)
FileNames == <<"App.tsx", "data.json", "util.ts", "index.css", "main.ts">>
NewFileName == "new.ts"
Languages == {"typescript", "json"}

ErrorPlaceholder == "// Error generating content"
RefactoredText == "refactored"
EditedText == "edited"
ReportText == "report"
ReportFallback == "Report generation failed."

\* a plan names distinct artifacts, each an empty `pending` skeleton
Skeleton(n, l) == [name |-> n, language |-> l, content |-> "", status |-> "pending"]

Plans ==
  UNION { { [j \in 1..n |-> Skeleton(FileNames[j], ls[j])] : ls \in [1..n -> Languages] }
          : n \in 0..MaxPlanFiles }

Finding(i, p) == [id |-> i, passed |-> p]

Analysis(results, q, degraded) ==
  [results |-> results, qualityScore |-> q, degraded |-> degraded, failed |-> FALSE]

\* AnalysisFailure reporting a degraded vibe
MutAnalysisFailure ==
  [results |-> <<>>, qualityScore |-> 0, degraded |-> TRUE, failed |-> TRUE]

\* the value runAutonomousTests resolves with when its call fails (the catch block)
AnalysisFailure ==
  [results |-> <<>>, qualityScore |-> 0, degraded |-> FALSE, failed |-> TRUE]

\* runAutonomousTests rejecting: getAiClient threw before the try block
AnalysisRejected == [rejected |-> TRUE]

(* ------------------------------ state --------------------------------- *)
VARIABLES
  state,            \* the Project (ProjectState)
  messages,         \* the Conversation
  metricsData,      \* the metrics series
  abortController,  \* the cancellation flag (abortController.current)
  ops,              \* the handler invocations started so far, by start order
  nUser,            \* how many user events there were
  answers           \* the answers the collaborator draws from in this run

vars == <<state, messages, metricsData, abortController, ops, nUser, answers>>

\* every user event starts at most one invocation
OpIds == 1..MaxUserActions

\* An invocation's locals, and what the properties below refer to of its past:
\*   pc            the call it is suspended in: plan, gen, pause (the pacing delay),
\*                 analyze, refactor, report, refine, mtest; none or done otherwise
\*   plan, currentFiles, i, iteration, qualityScore, analysis, filesToFix, k
\*                 the locals of handleStartMarathon (i and k count from 1)
\*   cfiles, wasCompleted
\*                 state.files and state.status === COMPLETED of the render whose
\*                 handleRefinement / handleManualTest this is
\*   changes       the changedFiles of the refinement response it merged
\*   stopped       STOP was pressed while it was in flight
\*   stoppedCoding ... while it was generating artifacts in phase Coding
\*   outcome       how it ended: completed, stopped (checkAbort threw), failed
\* An ended invocation keeps outcome, said, rejected, reset and the plan it was
\* given.
\*   passes        analysis calls its loop has made
\*   absorbed      how many of them failed inside runAutonomousTests
\*   refinings     times it has set the phase to Refining
\*   refactors     refactor calls it has made
\*   said          agent messages it has appended to the Conversation
\*   rejected      a call of its own was rejected (the collaborator failed)
\*   before        the phase in which the request of a refinement was sent
\*   reset         New Project was confirmed after it started
NoAnalysis == [results |-> <<>>, qualityScore |-> 0, degraded |-> FALSE, failed |-> FALSE]

\* an invocation that has not started, or whose locals are gone
NoOp ==
  [ kind |-> "none", pc |-> "none", currentFiles |-> <<>>, i |-> 0,
    iteration |-> 0, qualityScore |-> 0, filesToFix |-> <<>>, k |-> 0,
    plan |-> <<>>, analysis |-> NoAnalysis, cfiles |-> <<>>, wasCompleted |-> FALSE,
    changes |-> <<>>,
    stopped |-> FALSE, stoppedCoding |-> FALSE, outcome |-> "none",
    passes |-> 0, absorbed |-> 0, refinings |-> 0, refactors |-> 0,
    said |-> 0, rejected |-> FALSE, before |-> "none", reset |-> FALSE ]

\* an invocation ends: its locals are gone, how it ended is kept
Done(op, how) ==
  [NoOp EXCEPT !.kind = op.kind, !.pc = "done", !.outcome = how, !.plan = op.plan,
               !.said = op.said, !.rejected = op.rejected, !.reset = op.reset]

InFlight(o) == ops[o].pc \notin {"none", "done"}

\* the next invocation to start
nOps == Cardinality({o \in OpIds : ops[o].kind # "none"})

(* ------------------------------ helpers ------------------------------- *)
LogEntry(message, type) == [message |-> message, type |-> type]

\* No handler reads the log, and nothing reads its order: the model keeps the log
\* as the bag of its entries, and appending an entry adds one copy of it.
addLog(st, message, type) ==
  [st EXCEPT !.logs = @ (+) SetToBag({LogEntry(message, type)})]

Message(role, text) == [role |-> role, text |-> text]

isBusy == state.status \in {PLANNING, CODING, TESTING, REFINING}

\* checkAbort throws iff the flag is set
checkAbort == abortController

\* results.filter(r => !r.passed)
Failing(results) == SelectSeq(results, LAMBDA r : ~r.passed)

ChartDataPoint(it, q, b) == [iteration |-> it, quality |-> q, bugs |-> b]

\* the page as first loaded, with nothing stored
Fresh ==
  /\ state = INITIAL_STATE
  /\ messages = <<>>
  /\ metricsData = <<>>
  /\ abortController = FALSE
  /\ ops = [o \in OpIds |-> NoOp]
  /\ nUser = 0

Init == Fresh /\ answers = "few"

InitHandlers == Fresh /\ answers = "one"

\* artifact sequences with unique names, as a finished build or refinement stores
\* them: generated or refactored, data.json being the json one
StoredFiles ==
  { fs \in UNION { [1..n -> [name : {FileNames[j] : j \in 1..3},
                             language : Languages,
                             content : {"code"},
                             status : {"created", "verified"}]] : n \in 1..2 } :
      /\ \A i, j \in 1..Len(fs) : i # j => fs[i].name # fs[j].name
      /\ \A i \in 1..Len(fs) : fs[i].language = "json" <=> fs[i].name = "data.json" }

\* The page loaded with a completed Project in storage, its report stored or
\* not.  The mount effect recovers one metrics snapshot from the stored
\* iteration, qualityScore and testResults.
InitMerge ==
  /\ state \in { [INITIAL_STATE EXCEPT !.files = fs, !.status = COMPLETED,
                                        !.iteration = 1, !.qualityScore = 97,
                                        !.report = r] :
                    fs \in StoredFiles, r \in {ReportText, NoReport} }
  /\ messages = <<>>
  /\ metricsData = <<ChartDataPoint(state.iteration, state.qualityScore,
                                     Len(Failing(state.testResults)))>>
  /\ abortController = FALSE
  /\ ops = [o \in OpIds |-> NoOp]
  /\ nUser = 0
  /\ answers \in {"merge", "nokey"}

InitAll == Fresh /\ answers = "all"

InitTargets == Fresh /\ answers = "targets"

\* ... and of the runs where the user edits an artifact during a build
InitEdit == Fresh /\ answers = "edit"

(* ----------------------- the collaborator's answers ------------------- *)
\* a resolved answer, or a rejection
Resolved(v) == [ok |-> TRUE, value |-> v]
Rejected == [ok |-> FALSE, value |-> <<>>]

\* one entry of changedFiles
Change(n, t, l) == [name |-> n, content |-> t, language |-> l]

\* refineProject: an existing artifact changed, a new one added, or a rejection
refineProject ==
  { Resolved(<<Change(FileNames[1], "refined", "typescript")>>),
    Resolved(<<Change(NewFileName, "refined", "typescript")>>),
    Rejected }

\* Every answer each call can give.
\*   plan:     a plan, or a rejection
\*   gen:      generateFileContent resolves with the text, with nothing, or (its
\*             call failed) with the placeholder comment
\*   analyze:  runAutonomousTests resolves with the parsed answer (no finding or
\*             a failing one, a score below, at or above the target of 95,
\*             degraded or not) or (its call failed) with AnalysisFailure
\*   refactor: the new text, nothing (the old content is kept), or a rejection
\*   report:   the report, nothing (the fallback text), or a rejection
\*   refine:   the changedFiles of the answer, or a rejection
\*   mtest:    the analysis call of handleManualTest: as analyze
\* AllAnswers is drawn from in the run of one build (SpecAll).
AllAnswers ==
  [ plan     |-> { Resolved(p) : p \in Plans } \cup {Rejected},
    gen      |-> {"code", "", ErrorPlaceholder},
    analyze  |-> { Analysis(r, q, d) :
                     r \in {<<>>, <<Finding(0, FALSE)>>}, q \in {60, 95, 97}, d \in BOOLEAN }
                 \cup {AnalysisFailure},
    refactor |-> {RefactoredText, "", ServiceError},
    report   |-> {ReportText, "", ServiceError},
    refine   |-> refineProject,
    mtest    |-> { Analysis(r, q, d) :
                     r \in {<<>>, <<Finding(0, FALSE)>>}, q \in {60, 95, 97}, d \in BOOLEAN }
                 \cup {AnalysisFailure} ]

\* One answer of each kind that takes a handler down a different path: drawn
\* from in the runs that interleave user events and invocations (Spec).
FewAnswers ==
  [ plan     |-> { Resolved(<<Skeleton(FileNames[1], "typescript")>>), Rejected },
    gen      |-> {"code"},
    analyze  |-> { Analysis(<<>>, 97, FALSE), Analysis(<<Finding(0, FALSE)>>, 60, FALSE) },
    refactor |-> {RefactoredText, ServiceError},
    report   |-> {ReportText, ServiceError},
    refine   |-> refineProject,
    mtest    |-> { Analysis(<<>>, 97, FALSE), Analysis(<<Finding(0, FALSE)>>, 60, FALSE) } ]

\* Every changedFiles of up to MaxChanges entries that name the first two
\* artifacts or a new one: drawn from in the runs of one refinement (SpecMerge).
ChangedFiles ==
  UNION { [1..n -> { Change(nm, t, l) : nm \in {FileNames[1], FileNames[2], NewFileName},
                                        t \in {"refined", "refined again"},
                                        l \in {"typescript"} }] : n \in 0..MaxChanges }

MergeAnswers ==
  [FewAnswers EXCEPT !.refine = { Resolved(ch) : ch \in ChangedFiles } \cup {Rejected}]

\* The answers that take a build to each phase a message can arrive in: drawn
\* from in the runs where messages arrive in every phase (SpecHandlers).
OneAnswer ==
  [ plan     |-> { Resolved(<<Skeleton(FileNames[1], "typescript")>>) },
    gen      |-> {"code"},
    analyze  |-> { Analysis(<<>>, 97, FALSE), Analysis(<<Finding(0, FALSE)>>, 97, FALSE) },
    refactor |-> {RefactoredText},
    report   |-> {ReportText, ServiceError},
    refine   |-> { Resolved(<<Change(FileNames[1], "refined", "typescript")>>) },
    mtest    |-> { Analysis(<<>>, 97, FALSE), Analysis(<<Finding(0, FALSE)>>, 97, FALSE) } ]

\* getAiClient throws when the page was built without API_KEY: every call is
\* rejected before it is made, runAutonomousTests included (its getAiClient call
\* is outside its try block).  Drawn from in the runs of a stored Project.
NoKeyAnswers ==
  [FewAnswers EXCEPT !.plan = {Rejected}, !.refine = {Rejected}, !.mtest = {AnalysisRejected}]

\* Plans of MaxTargetFiles artifacts, json or not, generated with or without
\* content, and an analysis that always has a failing finding, so that the loop
\* makes its two Refining passes: drawn from in the runs that look at the
\* refactor targets (SpecTargets).
TargetAnswers ==
  [ plan     |-> { Resolved([j \in 1..MaxTargetFiles |-> Skeleton(FileNames[j], ls[j])]) :
                     ls \in [1..MaxTargetFiles -> Languages] },
    gen      |-> {"code", ""},
    analyze  |-> { Analysis(<<Finding(0, FALSE)>>, 60, FALSE) },
    refactor |-> {RefactoredText, ""},
    report   |-> {ReportText},
    refine   |-> refineProject,
    mtest    |-> { Analysis(<<>>, 97, FALSE) } ]

\* A plan of two artifacts and an analysis that passes or has a failing
\* finding: drawn from in the runs where the user edits an artifact during a
\* build (SpecEdit).
EditAnswers ==
  [ plan     |-> { Resolved(<<Skeleton(FileNames[1], "typescript"),
                              Skeleton(FileNames[2], "typescript")>>) },
    gen      |-> {"code"},
    analyze  |-> { Analysis(<<>>, 97, FALSE), Analysis(<<Finding(0, FALSE)>>, 60, FALSE) },
    refactor |-> {RefactoredText},
    report   |-> {ReportText},
    refine   |-> { Rejected },
    mtest    |-> { Analysis(<<>>, 97, FALSE) } ]

Answers ==
  CASE answers = "all" -> AllAnswers
    [] answers = "edit" -> EditAnswers
    [] answers = "targets" -> TargetAnswers
    [] answers = "merge" -> MergeAnswers
    [] answers = "nokey" -> NoKeyAnswers
    [] answers = "one" -> OneAnswer
    [] OTHER -> FewAnswers

(* ------------------------- handleStartMarathon ------------------------ *)
\* A context c is what one piece of a handler reads and writes:
\* [state, messages, metricsData, op]; abort is abortController.current.

\* CatchStopped with the final setState of handleRefinement's catch block
MutCatchStopped(c) ==
  [c EXCEPT !.state = [addLog(@, "Process halted.", "warning") EXCEPT !.status = IDLE],
            !.messages = Append(@, Message("agent", "Process stopped.")),
            !.op = Done([@ EXCEPT !.said = @ + 1], "stopped")]

\* catch (e) with e.message === "Process stopped by user"
CatchStopped(c) ==
  [c EXCEPT !.state = addLog(@, "Process halted.", "warning"),
            !.messages = Append(@, Message("agent", "Process stopped.")),
            !.op = Done([@ EXCEPT !.said = @ + 1], "stopped")]

\* catch (e) with any other error, the phase left as it was
MutCatchFailure(c) ==
  [c EXCEPT !.state = addLog(@, "FAILURE", "error"),
            !.messages = Append(@, Message("agent", "I encountered a critical error.")),
            !.op = Done([@ EXCEPT !.said = @ + 1], "failed")]

\* catch (e) with any other error
CatchFailure(c) ==
  [c EXCEPT !.state = [addLog(@, "FAILURE", "error") EXCEPT !.status = FAILED],
            !.messages = Append(@, Message("agent", "I encountered a critical error.")),
            !.op = Done([@ EXCEPT !.said = @ + 1], "failed")]

\* PHASE 4 up to the report call
Reporting(c, abort) ==
  IF abort THEN CatchStopped(c)
  ELSE [c EXCEPT !.state.status = COMPLETED, !.op.pc = "report"]

\* the head of the while loop, up to the analysis call
LoopHead(c, abort) ==
  IF c.op.iteration <= MAX_ITERATIONS /\ c.op.qualityScore < 95
  THEN IF abort THEN CatchStopped(c)
       ELSE [c EXCEPT
               !.state = addLog([@ EXCEPT !.status = TESTING, !.iteration = c.op.iteration],
                                "Running tests...", "system"),
               !.op.pc = "analyze",
               !.op.passes = @ + 1]
  ELSE Reporting(c, abort)

\* the head of the for loop over filesToFix (k is the next target), up to the call
RefactorLoop(c, abort) ==
  IF c.op.k <= Len(c.op.filesToFix)
  THEN IF abort THEN CatchStopped(c)
       ELSE [c EXCEPT !.state = addLog(@, "Refactoring...", "info"),
                      !.op.pc = "refactor",
                      !.op.refactors = @ + 1]
  ELSE LoopHead([c EXCEPT !.op.iteration = @ + 1], abort)

\* PHASE 3 starts
OptimizationLoop(c, abort) ==
  LoopHead([c EXCEPT !.state = addLog(@, "Phase 3: Optimization Loop", "system"),
                     !.op.iteration = 1,
                     !.op.qualityScore = 0], abort)

\* the head of the for loop over currentFiles (i is the next index), up to the call
CodingLoop(c, abort) ==
  IF c.op.i <= Len(c.op.currentFiles)
  THEN IF abort THEN CatchStopped(c)
       ELSE [c EXCEPT !.state = addLog(@, "Generating artifact...", "info"),
                      !.op.pc = "gen"]
  ELSE OptimizationLoop(c, abort)

\* StartMarathon keeping the Project and the metrics series it finds
MutStartMarathon(c, abort) ==
  LET c1 == [c EXCEPT
               !.state = addLog(addLog([@ EXCEPT !.status = PLANNING],
                                       "DAION Agent Initialized.", "system"),
                                "Goal", "info"),
               !.messages = Append(@, Message("agent", "Target acquired.")),
               !.op = [NoOp EXCEPT !.kind = "build", !.said = 1]]
  IN  IF abort THEN CatchStopped(c1)
      ELSE [c1 EXCEPT !.state = addLog(@, "Phase 1: Architecture & Planning", "system"),
                      !.op.pc = "plan"]

\* handleStartMarathon up to the plan call
StartMarathon(c, abort) ==
  LET c1 == [c EXCEPT
               !.state = addLog(addLog([INITIAL_STATE EXCEPT !.status = PLANNING],
                                       "DAION Agent Initialized.", "system"),
                                "Goal", "info"),
               !.metricsData = <<>>,
               !.messages = Append(@, Message("agent", "Target acquired.")),
               !.op = [NoOp EXCEPT !.kind = "build", !.said = 1]]
  IN  IF abort THEN CatchStopped(c1)
      ELSE [c1 EXCEPT !.state = addLog(@, "Phase 1: Architecture & Planning", "system"),
                      !.op.pc = "plan"]

\* the plan call returns
AfterPlan(c, answer, abort) ==
  IF ~answer.ok THEN CatchFailure([c EXCEPT !.op.rejected = TRUE])
  ELSE IF abort THEN CatchStopped([c EXCEPT !.op.plan = answer.value])
  ELSE CodingLoop(
         [c EXCEPT
            !.state = addLog(addLog([@ EXCEPT !.files = answer.value, !.status = CODING],
                                    "Plan generated.", "success"),
                             "Phase 2: Autonomous Construction", "system"),
            !.op.plan = answer.value,
            !.op.currentFiles = answer.value,
            !.op.i = 1], abort)

\* AfterGenerate with a failed generation propagated to the catch block
MutAfterGenerate(c, content) ==
  LET cur == [c.op.currentFiles EXCEPT ![c.op.i] =
                [@ EXCEPT !.content = content, !.status = "created"]]
  IN  IF content = ErrorPlaceholder THEN CatchFailure(c)
      ELSE [c EXCEPT !.state.files = cur,
                     !.op.currentFiles = cur,
                     !.op.pc = "pause"]

\* a generateFileContent call returns; the pacing delay starts
AfterGenerate(c, content) ==
  LET cur == [c.op.currentFiles EXCEPT ![c.op.i] =
                [@ EXCEPT !.content = content, !.status = "created"]]
  IN  [c EXCEPT !.state.files = cur,
                !.op.currentFiles = cur,
                !.op.pc = "pause"]

\* AfterPause skipping an artifact
MutAfterPause(c, abort) == CodingLoop([c EXCEPT !.op.i = @ + 2], abort)

\* the pacing delay ends: i++
AfterPause(c, abort) == CodingLoop([c EXCEPT !.op.i = @ + 1], abort)

Min(a, b) == IF a < b THEN a ELSE b

\* FilesToFix keeping the first eligible artifact only
MutFilesToFix(currentFiles) ==
  LET eligible == SelectSeq(currentFiles, LAMBDA f : f.language # "json" /\ f.content # "")
  IN  SubSeq(eligible, 1, Min(1, Len(eligible)))

\* currentFiles.filter(language !== 'json' && content.length > 0).slice(0, 3)
FilesToFix(currentFiles) ==
  LET eligible == SelectSeq(currentFiles, LAMBDA f : f.language # "json" /\ f.content # "")
  IN  SubSeq(eligible, 1, Min(3, Len(eligible)))

\* an analysis call of the loop returns
AfterAnalyze(c, analysis, abort) ==
  IF abort THEN CatchStopped(c)
  ELSE
    LET bugCount == Len(Failing(analysis.results))
        iteration == c.op.iteration
        c1 == [c EXCEPT
                 !.op.analysis = analysis,
                 !.op.absorbed = IF analysis.failed THEN @ + 1 ELSE @,
                 !.op.qualityScore = analysis.qualityScore,
                 !.metricsData = Append(@, ChartDataPoint(iteration, analysis.qualityScore, bugCount)),
                 !.state = [@ EXCEPT !.testResults = analysis.results,
                                     !.qualityScore = analysis.qualityScore]]
        c2 == IF analysis.degraded
              THEN [c1 EXCEPT !.state = addLog(@, "Vibe degraded. Refactoring.", "warning")]
              ELSE c1
        needsRefinement == bugCount > 0 \/ analysis.degraded
    IN  IF needsRefinement /\ iteration < MAX_ITERATIONS
        THEN RefactorLoop([c2 EXCEPT !.state.status = REFINING,
                                     !.op.refinings = @ + 1,
                                     !.op.filesToFix = FilesToFix(c.op.currentFiles),
                                     !.op.k = 1], abort)
        ELSE IF analysis.qualityScore >= 95 /\ ~analysis.degraded
        THEN Reporting([c2 EXCEPT !.state = addLog(@, "System stable.", "success")], abort)
        ELSE IF iteration >= MAX_ITERATIONS
        THEN Reporting([c2 EXCEPT !.state = addLog(@, "Max iterations reached.", "warning")], abort)
        ELSE LoopHead([c2 EXCEPT !.op.iteration = @ + 1], abort)

\* currentFiles.findIndex(f => f.name === name): 0 when there is none
FindIndex(files, name) ==
  IF \E j \in 1..Len(files) : files[j].name = name
  THEN CHOOSE j \in 1..Len(files) :
         /\ files[j].name = name
         /\ \A h \in 1..(j - 1) : files[h].name # name
  ELSE 0

\* AfterRefactor writing the k-th artifact instead of the one found by name
MutAfterRefactor(c, answer, abort) ==
  IF answer = ServiceError THEN CatchFailure([c EXCEPT !.op.rejected = TRUE])
  ELSE
    LET file == c.op.filesToFix[c.op.k]
        newContent == IF answer = "" THEN file.content ELSE answer
        index == c.op.k
        cur == [c.op.currentFiles EXCEPT ![index] =
                  [file EXCEPT !.content = newContent, !.status = "verified"]]
    IN  RefactorLoop([[c EXCEPT !.op.currentFiles = cur, !.state.files = cur]
                        EXCEPT !.op.k = @ + 1], abort)

\* a refactorCode call returns
AfterRefactor(c, answer, abort) ==
  IF answer = ServiceError THEN CatchFailure([c EXCEPT !.op.rejected = TRUE])
  ELSE
    LET file == c.op.filesToFix[c.op.k]
        newContent == IF answer = "" THEN file.content ELSE answer
        index == FindIndex(c.op.currentFiles, file.name)
        cur == [c.op.currentFiles EXCEPT ![index] =
                  [file EXCEPT !.content = newContent, !.status = "verified"]]
        c1 == IF index # 0
              THEN [c EXCEPT !.op.currentFiles = cur, !.state.files = cur]
              ELSE c
    IN  RefactorLoop([c1 EXCEPT !.op.k = @ + 1], abort)

\* the generateFinalReport call returns
AfterReport(c, answer) ==
  IF answer = ServiceError THEN CatchFailure([c EXCEPT !.op.rejected = TRUE])
  ELSE [c EXCEPT
          !.state = addLog([@ EXCEPT !.report =
                              IF answer = "" THEN ReportFallback ELSE answer],
                           "Mission Complete.", "success"),
          !.messages = Append(@, Message("agent", "Mission complete.")),
          !.op = Done([@ EXCEPT !.said = @ + 1], "completed")]

(* --------------------- handleManualTest, handleRefinement ------------- *)
\* ManualTest returning at once
MutManualTest(c, closure) == [c EXCEPT !.op = Done(@, "returned")]

\* handleManualTest up to the analysis call; the handler reads the `state` of its
\* render: closure.files and closure.status
ManualTest(c, closure) ==
  IF Len(closure.files) = 0 THEN [c EXCEPT !.op = Done(@, "returned")]
  ELSE [c EXCEPT
          !.state = addLog([@ EXCEPT !.status = TESTING], "Manual Override", "system"),
          !.op.cfiles = closure.files,
          !.op.wasCompleted = (closure.status = COMPLETED),
          !.op.pc = "mtest"]

\* AfterManualTest leaving the phase Testing
MutAfterManualTest(c, analysis) ==
  [c EXCEPT !.op = Done(@, "completed")]

\* the analysis call of handleManualTest returns, or is rejected (the catch block)
AfterManualTest(c, analysis) ==
  IF analysis = AnalysisRejected
  THEN [c EXCEPT
          !.state = [addLog(@, "Test run failed", "error") EXCEPT !.status = IDLE],
          !.op = Done([@ EXCEPT !.rejected = TRUE], "failed")]
  ELSE
  LET bugCount == Len(Failing(analysis.results))
      prev == c.metricsData
      nextIter == IF Len(prev) > 0 THEN prev[Len(prev)].iteration + 1 ELSE 1
      st1 == [c.state EXCEPT
                !.testResults = analysis.results,
                !.qualityScore = analysis.qualityScore,
                !.status = IF c.op.wasCompleted THEN COMPLETED ELSE IDLE]
      st2 == IF analysis.degraded
             THEN addLog(addLog(st1, "System vibe degraded.", "warning"),
                         "Vibe Inspector", "info")
             ELSE addLog(st1, "Quality Score",
                         IF analysis.qualityScore > 80 THEN "success" ELSE "warning")
  IN  [c EXCEPT
         !.metricsData = Append(prev, ChartDataPoint(nextIter, analysis.qualityScore, bugCount)),
         !.state = st2,
         !.op = Done(@, "completed")]

\* MergeChanges pushing every change
MutMergeChanges(newFiles, changes) ==
  newFiles \o [j \in 1..Len(changes) |->
                [name |-> changes[j].name, content |-> changes[j].content,
                 language |-> changes[j].language, status |-> "created"]]

\* refineProject's merge of changedFiles into [...files]
RECURSIVE MergeChanges(_, _)
MergeChanges(newFiles, changes) ==
  IF changes = <<>> THEN newFiles
  ELSE LET change == Head(changes)
           idx == FindIndex(newFiles, change.name)
       IN  MergeChanges(
             IF idx # 0
             THEN [newFiles EXCEPT ![idx] = [@ EXCEPT !.content = change.content]]
             ELSE Append(newFiles,
                         [name |-> change.name, content |-> change.content,
                          language |-> change.language, status |-> "created"]),
             Tail(changes))

\* Refinement whose test run takes the Project for one that was not Completed
MutRefinement(c, closure) ==
  [c EXCEPT
     !.state = addLog(addLog([@ EXCEPT !.status = REFINING], "User Request", "system"),
                      "Analyzing request and updating codebase...", "info"),
     !.op = [NoOp EXCEPT !.kind = "refine", !.pc = "refine",
                         !.cfiles = closure.files,
                         !.wasCompleted = FALSE,
                         !.before = closure.status]]

\* handleRefinement up to the refine call
Refinement(c, closure) ==
  [c EXCEPT
     !.state = addLog(addLog([@ EXCEPT !.status = REFINING], "User Request", "system"),
                      "Analyzing request and updating codebase...", "info"),
     !.op = [NoOp EXCEPT !.kind = "refine", !.pc = "refine",
                         !.cfiles = closure.files,
                         !.wasCompleted = (closure.status = COMPLETED),
                         !.before = closure.status]]

\* the refine call returns
AfterRefine(c, answer, abort) ==
  IF ~answer.ok
  THEN [c EXCEPT
          !.state = [addLog(@, "Refinement failed", "error") EXCEPT !.status = IDLE],
          !.messages = Append(@, Message("agent", "I couldn't apply those changes.")),
          !.op = Done([@ EXCEPT !.said = @ + 1, !.rejected = TRUE], "failed")]
  ELSE IF abort
  THEN [c EXCEPT !.state.status = IDLE, !.op = Done(@, "stopped")]
  ELSE ManualTest(
         [c EXCEPT
            !.op.changes = answer.value,
            !.op.said = @ + 1,
            !.state = addLog([@ EXCEPT !.files = MergeChanges(c.op.cfiles, answer.value),
                                       !.status = TESTING],
                             "Refinement applied", "success"),
            !.messages = Append(@, Message("agent", "I've updated the code."))],
         [files |-> c.op.cfiles,
          status |-> IF c.op.wasCompleted THEN COMPLETED ELSE "other"])

(* ------------------------------ actions ------------------------------- *)
Ctx(op) == [state |-> state, messages |-> messages, metricsData |-> metricsData, op |-> op]

\* the context d becomes the state; invocation o is the one that ran
Commit(d, o) ==
  /\ state' = d.state
  /\ messages' = d.messages
  /\ metricsData' = d.metricsData
  /\ ops' = [ops EXCEPT ![o] = d.op]

\* handleSendMessage refining a Completed or Failed Project only
MuthandleSendMessage ==
  LET o == nOps + 1
      c == [Ctx(NoOp) EXCEPT !.messages = Append(@, Message("user", "request"))]
  IN  /\ abortController' = FALSE
      /\ IF state.status = IDLE \/ state.status = STOPPED \/ Len(state.files) = 0
         THEN Commit(StartMarathon(c, FALSE), o)
         ELSE IF state.status \in {COMPLETED, FAILED}
         THEN Commit(Refinement(c, state), o)
         ELSE /\ messages' = c.messages
              /\ UNCHANGED <<state, metricsData, ops>>

\* handleSendMessage with a non-empty input
handleSendMessage ==
  LET o == nOps + 1
      c == [Ctx(NoOp) EXCEPT !.messages = Append(@, Message("user", "request"))]
  IN  /\ abortController' = FALSE
      /\ IF state.status = IDLE \/ state.status = STOPPED \/ Len(state.files) = 0
         THEN Commit(StartMarathon(c, FALSE), o)
         ELSE IF state.status \in {COMPLETED, FAILED, TESTING, CODING}
         THEN Commit(Refinement(c, state), o)
         ELSE /\ messages' = c.messages
              /\ UNCHANGED <<state, metricsData, ops>>

\* the test button's handler
handleManualTest ==
  LET o == nOps + 1
  IN  /\ Len(state.files) # 0
      /\ Commit(ManualTest(Ctx([NoOp EXCEPT !.kind = "mtest"]), state), o)
      /\ UNCHANGED abortController

handleStop ==
  /\ abortController' = TRUE
  /\ state' = [addLog(state, "Process termination requested by user.", "warning")
                 EXCEPT !.status = STOPPED]
  /\ ops' = [o \in OpIds |->
               IF InFlight(o)
               THEN [ops[o] EXCEPT
                       !.stopped = TRUE,
                       !.stoppedCoding = @ \/ (state.status = CODING /\ ops[o].pc \in {"gen", "pause"})]
               ELSE ops[o]]
  /\ UNCHANGED <<messages, metricsData>>

\* The editor reports a change of the selected artifact: the artifact of the
\* current Project with the selected name gets the new content.  (An artifact
\* is selected in the explorer, which lists state.files; the editor is rendered
\* in every phase.)
handleCodeChange(selectedName, newContent) ==
  /\ state' = [state EXCEPT !.files =
                 [j \in 1..Len(@) |->
                    IF @[j].name = selectedName
                    THEN [@[j] EXCEPT !.content = newContent]
                    ELSE @[j]]]
  /\ UNCHANGED <<messages, metricsData, abortController, ops>>

\* the user confirms the dialog
handleNewProject ==
  /\ state' = INITIAL_STATE
  /\ messages' = <<>>
  /\ metricsData' = <<>>
  /\ ops' = [o \in OpIds |->
               IF ops[o].kind # "none" THEN [ops[o] EXCEPT !.reset = TRUE] ELSE ops[o]]
  /\ UNCHANGED abortController

\* one more user event
UserEvent ==
  /\ nUser < MaxUserActions
  /\ nUser' = nUser + 1
  /\ UNCHANGED answers

\* the controls as rendered: send and Enter, test, STOP, New Project
UISend == ~isBusy /\ UserEvent /\ handleSendMessage
UIManualTest == ~isBusy /\ UserEvent /\ handleManualTest
UIStop == isBusy /\ UserEvent /\ handleStop
UINewProject == ~isBusy /\ UserEvent /\ handleNewProject

\* a suspended invocation resumes with the collaborator's answer
PlanReturns(o, A) ==
  /\ ops[o].pc = "plan"
  /\ \E answer \in A.plan : Commit(AfterPlan(Ctx(ops[o]), answer, checkAbort), o)
  /\ UNCHANGED <<abortController, nUser, answers>>

GenerateReturns(o, A) ==
  /\ ops[o].pc = "gen"
  /\ \E content \in A.gen : Commit(AfterGenerate(Ctx(ops[o]), content), o)
  /\ UNCHANGED <<abortController, nUser, answers>>

PauseEnds(o) ==
  /\ ops[o].pc = "pause"
  /\ Commit(AfterPause(Ctx(ops[o]), checkAbort), o)
  /\ UNCHANGED <<abortController, nUser, answers>>

AnalyzeReturns(o, A) ==
  /\ ops[o].pc = "analyze"
  /\ \E analysis \in A.analyze :
       Commit(AfterAnalyze(Ctx(ops[o]), analysis, checkAbort), o)
  /\ UNCHANGED <<abortController, nUser, answers>>

RefactorReturns(o, A) ==
  /\ ops[o].pc = "refactor"
  /\ \E answer \in A.refactor : Commit(AfterRefactor(Ctx(ops[o]), answer, checkAbort), o)
  /\ UNCHANGED <<abortController, nUser, answers>>

ReportReturns(o, A) ==
  /\ ops[o].pc = "report"
  /\ \E answer \in A.report : Commit(AfterReport(Ctx(ops[o]), answer), o)
  /\ UNCHANGED <<abortController, nUser, answers>>

RefineReturns(o, A) ==
  /\ ops[o].pc = "refine"
  /\ \E answer \in A.refine : Commit(AfterRefine(Ctx(ops[o]), answer, checkAbort), o)
  /\ UNCHANGED <<abortController, nUser, answers>>

ManualTestReturns(o, A) ==
  /\ ops[o].pc = "mtest"
  /\ \E analysis \in A.mtest : Commit(AfterManualTest(Ctx(ops[o]), analysis), o)
  /\ UNCHANGED <<abortController, nUser, answers>>

Next ==
  \/ UISend
  \/ UIManualTest
  \/ UIStop
  \/ UINewProject
  \/ \E o \in OpIds : PlanReturns(o, Answers)
  \/ \E o \in OpIds : GenerateReturns(o, Answers)
  \/ \E o \in OpIds : PauseEnds(o)
  \/ \E o \in OpIds : AnalyzeReturns(o, Answers)
  \/ \E o \in OpIds : RefactorReturns(o, Answers)
  \/ \E o \in OpIds : ReportReturns(o, Answers)
  \/ \E o \in OpIds : RefineReturns(o, Answers)
  \/ \E o \in OpIds : ManualTestReturns(o, Answers)

\* user events interleaved with the invocations they start
Spec == Init /\ [][Next]_vars

\* some suspended invocation resumes
Resume ==
  \E o \in OpIds :
    \/ PlanReturns(o, Answers)
    \/ GenerateReturns(o, Answers)
    \/ PauseEnds(o)
    \/ AnalyzeReturns(o, Answers)
    \/ RefactorReturns(o, Answers)
    \/ ReportReturns(o, Answers)
    \/ RefineReturns(o, Answers)
    \/ ManualTestReturns(o, Answers)

\* every call returns or fails, and the pacing delay ends: while an invocation is
\* suspended, one is eventually resumed
CallsReturn == WF_vars(Resume)

\* user events, up to MaxLiveActions of them, interleaved with the invocations
NextLive ==
  \/ nUser < MaxLiveActions /\ UISend
  \/ nUser < MaxLiveActions /\ UIManualTest
  \/ nUser < MaxLiveActions /\ UIStop
  \/ nUser < MaxLiveActions /\ UINewProject
  \/ Resume

SpecLive == Init /\ [][NextLive]_vars /\ CallsReturn

\* The page is reloaded.  The invocations in flight are gone with the old page;
\* the Project and the Conversation come back from localStorage as the
\* persistence effects last wrote them (numbers, strings, null and arrays of
\* them survive JSON.stringify / JSON.parse unchanged); the metrics series and
\* the cancellation flag start afresh, and the mount effect recovers one
\* snapshot when the stored iteration is above 0.
Reload ==
  /\ state' = state
  /\ messages' = messages
  /\ metricsData' = IF state.iteration > 0
                    THEN <<ChartDataPoint(state.iteration, state.qualityScore,
                                          Len(Failing(state.testResults)))>>
                    ELSE <<>>
  /\ abortController' = FALSE
  /\ ops' = [o \in OpIds |-> NoOp]

UIReload == UserEvent /\ Reload

\* user events and reloads interleaved with the invocations
NextReload ==
  \/ UISend
  \/ UIManualTest
  \/ UIStop
  \/ UINewProject
  \/ UIReload
  \/ Resume

SpecReload == Init /\ [][NextReload]_vars

\* the user sends one request ...
OneRequest ==
  /\ nUser = 0
  /\ ~isBusy
  /\ nUser' = 1
  /\ handleSendMessage
  /\ UNCHANGED answers

\* ... and may press STOP
OneStop ==
  /\ isBusy
  /\ handleStop
  /\ UNCHANGED <<nUser, answers>>

NextAll ==
  \/ OneRequest
  \/ OneStop
  \/ \E o \in OpIds : PlanReturns(o, Answers)
  \/ \E o \in OpIds : GenerateReturns(o, Answers)
  \/ \E o \in OpIds : PauseEnds(o)
  \/ \E o \in OpIds : AnalyzeReturns(o, Answers)
  \/ \E o \in OpIds : RefactorReturns(o, Answers)
  \/ \E o \in OpIds : ReportReturns(o, Answers)

SpecAll == InitAll /\ [][NextAll]_vars

\* the user selects an artifact of the Project and types in the editor
OneEdit ==
  /\ nUser \in 1..MaxEdits
  /\ nUser' = nUser + 1
  /\ \E j \in 1..Len(state.files) : handleCodeChange(state.files[j].name, EditedText)
  /\ UNCHANGED answers

\* one build, with manual edits of its artifacts while it runs
NextEdit ==
  \/ OneRequest
  \/ OneEdit
  \/ \E o \in OpIds : PlanReturns(o, Answers)
  \/ \E o \in OpIds : GenerateReturns(o, Answers)
  \/ \E o \in OpIds : PauseEnds(o)
  \/ \E o \in OpIds : AnalyzeReturns(o, Answers)
  \/ \E o \in OpIds : RefactorReturns(o, Answers)
  \/ \E o \in OpIds : ReportReturns(o, Answers)

SpecEdit == InitEdit /\ [][NextEdit]_vars

\* one build of a plan of MaxTargetFiles artifacts
SpecTargets == InitTargets /\ [][NextAll]_vars

\* handleSendMessage called whatever the phase
Send ==
  /\ nUser < MaxSends
  /\ nUser' = nUser + 1
  /\ handleSendMessage
  /\ UNCHANGED answers

\* the handlers as functions: messages arrive in every phase
NextHandlers ==
  \/ Send
  \/ OneStop
  \/ \E o \in OpIds : PlanReturns(o, Answers)
  \/ \E o \in OpIds : GenerateReturns(o, Answers)
  \/ \E o \in OpIds : PauseEnds(o)
  \/ \E o \in OpIds : AnalyzeReturns(o, Answers)
  \/ \E o \in OpIds : RefactorReturns(o, Answers)
  \/ \E o \in OpIds : ReportReturns(o, Answers)
  \/ \E o \in OpIds : RefineReturns(o, Answers)
  \/ \E o \in OpIds : ManualTestReturns(o, Answers)

SpecHandlers == InitHandlers /\ [][NextHandlers]_vars

\* the user runs the tests once
OneTest ==
  /\ nUser = 0
  /\ ~isBusy
  /\ nUser' = 1
  /\ handleManualTest
  /\ UNCHANGED answers

\* the run of one refinement, or one manual test, of a stored Project
NextMerge ==
  \/ OneRequest
  \/ OneTest
  \/ \E o \in OpIds : RefineReturns(o, Answers)
  \/ \E o \in OpIds : ManualTestReturns(o, Answers)

SpecMerge == InitMerge /\ [][NextMerge]_vars

(* ------------------------------ properties ---------------------------- *)
\* invocation o ran in this step: it left the call it was suspended in
Moved(o) ==
  /\ InFlight(o)
  /\ <<ops'[o].pc, ops'[o].i, ops'[o].k, ops'[o].iteration, ops'[o].passes>>
       # <<ops[o].pc, ops[o].i, ops[o].k, ops[o].iteration, ops[o].passes>>

\* invocation o observed cancellation in this step: checkAbort threw
Cancelled(o) == InFlight(o) /\ ops'[o].outcome = "stopped"

NewErrorLog ==
  \E e \in BagToSet(state'.logs) :
    e.type = "error" /\ CopiesIn(e, state'.logs) > CopiesIn(e, state.logs)

StoppedMessage == Message("agent", "Process stopped.")

\* C1: in no reachable state have two invocations of handleStartMarathon or
\* handleRefinement started and not yet finished.
C1_AtMostOneInFlight ==
  Cardinality({o \in OpIds : InFlight(o) /\ ops[o].kind \in {"build", "refine"}}) <= 1

\* C2: a build that STOP was pressed on makes no further collaborator call: when
\* the call it was in returns it goes on to nothing but the pacing delay or its
\* own end, whatever the user did in between.
C2_NoCallAfterStop ==
  [][\A o \in OpIds :
       (ops[o].kind = "build" /\ ops[o].stopped /\ Moved(o))
         => ops'[o].pc \in {"pause", "done"}]_vars

\* C3: a build that STOP was pressed on changes none of files, testResults,
\* qualityScore and the metrics series from then on.
C3_ResultDiscardedAfterStop ==
  [][\A o \in OpIds :
       (ops[o].kind = "build" /\ ops[o].stopped /\ Moved(o))
         => /\ state'.files = state.files
            /\ state'.testResults = state.testResults
            /\ state'.qualityScore = state.qualityScore
            /\ metricsData' = metricsData]_vars

\* C4: when a build or a refinement observes cancellation at a checkpoint while
\* the phase is Stopped, the phase is Stopped after it has unwound, and the
\* unwinding appends no log entry of type error.
C4_CancellationEndsStopped ==
  [][\A o \in OpIds :
       (Cancelled(o) /\ state.status = STOPPED)
         => state'.status = STOPPED /\ ~NewErrorLog]_vars

\* C5: a build that STOP was pressed on in phase Coding never goes on to an
\* analysis call (it never sets the phase to Testing); it ends by observing the
\* cancellation, leaves the phase Stopped as STOP set it, and appends exactly one
\* "Process stopped." message.
C5_StopWhileCoding ==
  [][\A o \in OpIds :
       (ops[o].stoppedCoding /\ Moved(o))
         => /\ ops'[o].pc # "analyze"
            /\ ops'[o].pc = "done"
                 => /\ ops'[o].outcome = "stopped"
                    /\ messages' = Append(messages, StoppedMessage)
                    /\ state.status = STOPPED => state'.status = STOPPED]_vars

\* C6: a build that observes cancellation at the checkpoint after the plan call
\* leaves the phase Stopped and files equal to the skeleton the plan returned.
C6_StopDuringPlan ==
  [][\A o \in OpIds :
       (ops[o].pc = "plan" /\ Cancelled(o))
         => state'.status = STOPPED /\ state'.files = ops'[o].plan]_vars

\* C6 as amended: a build that observes cancellation at the checkpoint after the
\* plan call discards the plan: its unwinding leaves files, testResults,
\* qualityScore, the metrics series and the phase as they were, and appends
\* the one "Process stopped." message.
C6_PlanDiscarded ==
  [][\A o \in OpIds :
       (ops[o].pc = "plan" /\ Cancelled(o))
         => /\ state'.files = state.files
            /\ state'.status = state.status
            /\ state'.testResults = state.testResults
            /\ state'.qualityScore = state.qualityScore
            /\ metricsData' = metricsData
            /\ messages' = Append(messages, StoppedMessage)]_vars

\* a build was cancelled with a plan of one artifact or more in hand; the phase is
\* Stopped and files is empty
C6_Witness ==
  \E o \in OpIds :
    /\ ops[o].kind = "build" /\ ops[o].outcome = "stopped"
    /\ ops[o].plan # <<>>
    /\ state.status = STOPPED
    /\ state.files = <<>>

\* C7: the loop of one build makes at most 3 analysis calls, and whenever the
\* phase is Completed the project's iteration is at most 3.
C7_AtMostThreePasses ==
  /\ \A o \in OpIds : ops[o].passes <= 3
  /\ state.status = COMPLETED => state.iteration <= 3

\* a build has left the loop for the report after its third analysis call
C7_Witness ==
  \E o \in OpIds :
    /\ ops[o].pc = "report" /\ ops[o].passes = 3
    /\ state.status = COMPLETED /\ state.iteration = 3

\* an analysis call of build o's loop returned in this step and was not discarded
AnalysisReturned(o) ==
  /\ ops[o].kind = "build" /\ ops[o].pc = "analyze"
  /\ Moved(o)
  /\ ops'[o].pc # "done"

Stable(analysis) == analysis.qualityScore >= 95 /\ ~analysis.degraded

\* C8: when an analysis call of a build returns qualityScore >= 95 and not
\* degraded, the build sets the phase to Completed next and makes no refactor
\* call, whatever the iteration and however many findings failed.
C8_StableCompletes ==
  [][\A o \in OpIds :
       (AnalysisReturned(o) /\ Stable(ops'[o].analysis))
         => state'.status = COMPLETED /\ ops'[o].pc = "report"]_vars

\* C9: a build leaves the loop for Completed only when its most recent analysis
\* had qualityScore >= 95 and was not degraded, or when iteration has reached
\* MAX_ITERATIONS and the warning "Max iterations reached." is appended.
C9_ExitsToCompleted ==
  [][\A o \in OpIds :
       (ops[o].kind = "build" /\ InFlight(o) /\ ops[o].pc # "report"
          /\ ops'[o].pc = "report")
         => \/ Stable(ops'[o].analysis)
            \/ /\ ops'[o].iteration >= MAX_ITERATIONS
               /\ CopiesIn(LogEntry("Max iterations reached.", "warning"), state'.logs)
                    > CopiesIn(LogEntry("Max iterations reached.", "warning"), state.logs)]_vars

\* C10: when an analysis call of a build returns a result that is not both
\* qualityScore >= 95 and not degraded, and iteration < MAX_ITERATIONS, the
\* build sets the phase to Refining before it calls the analysis again.
C10_RefinesBeforeRetest ==
  [][\A o \in OpIds :
       (AnalysisReturned(o) /\ ~Stable(ops'[o].analysis)
          /\ ops[o].iteration < MAX_ITERATIONS)
         => ops'[o].refinings = ops[o].refinings + 1]_vars

\* C11: the phase never goes from Refining to Completed: a build that has
\* refined analyses the refactored artifacts again before it completes.
C11_RetestAfterRefining ==
  [][state.status = REFINING => state'.status # COMPLETED]_vars

\* The scenario of C12 as build o has lived it when its second analysis
\* returns: a plan of 2 artifacts, both generated; the first analysis 60 with one
\* failing finding, the second 97 with none; neither degraded; no STOP.
TwoPassScenario(o) ==
  /\ AnalysisReturned(o)
  /\ ~ops[o].stopped
  /\ Len(ops[o].plan) = 2
  /\ \A j \in 1..2 : ops[o].plan[j].content = "" /\ ops[o].currentFiles[j].content # ""
                     /\ ops[o].currentFiles[j].content # ErrorPlaceholder
  /\ metricsData' = << ChartDataPoint(1, 60, 1), ChartDataPoint(2, 97, 0) >>
  /\ ~BagIn(LogEntry("Vibe degraded. Refactoring.", "warning"), state'.logs)

\* C12: in the scenario the build ends with iteration 2 and phase Completed, and
\* it has made exactly one refactor call.
C12_OneRefactorCall ==
  [][\A o \in OpIds :
       TwoPassScenario(o)
         => /\ state'.iteration = 2 /\ state'.status = COMPLETED
            /\ ops'[o].refactors = 1]_vars

\* how many of the artifacts are not json
NonJson(files) == Len(SelectSeq(files, LAMBDA f : f.language # "json"))

\* C12 as amended: in the scenario the build ends with iteration 2 and phase
\* Completed after exactly one Refining pass, in which it has made one refactor
\* call for each artifact that is not json.
C12_OneRefactorPass ==
  [][\A o \in OpIds :
       TwoPassScenario(o)
         => /\ state'.iteration = 2 /\ state'.status = COMPLETED
            /\ ops'[o].pc = "report"
            /\ ops'[o].refinings = 1
            /\ ops'[o].refactors = NonJson(ops[o].plan)]_vars

\* the scenario has ended for a plan of two artifacts that are not json: two
\* refactor calls were made in the one Refining pass
C12_Witness ==
  \E o \in OpIds :
    /\ ops[o].pc = "report" /\ ~ops[o].stopped
    /\ Len(ops[o].plan) = 2 /\ NonJson(ops[o].plan) = 2
    /\ metricsData = << ChartDataPoint(1, 60, 1), ChartDataPoint(2, 97, 0) >>
    /\ ~ops[o].analysis.degraded
    /\ state.iteration = 2 /\ state.status = COMPLETED
    /\ ops[o].refinings = 1 /\ ops[o].refactors = 2

\* every analysis call build o has had an answer from failed, and STOP was not
\* pressed on it
EveryAnalysisFailed(o) ==
  /\ ops[o].kind = "build" /\ ops[o].pc \in {"analyze", "report"}
  /\ ~ops[o].stopped
  /\ ops[o].absorbed = IF ops[o].pc = "analyze" THEN ops[o].passes - 1 ELSE ops[o].passes

\* C13: while every analysis call of a build fails, qualityScore is 0, testResults
\* is empty and the phase is not Failed; the build makes no refactor call, leaves
\* the loop only after the third failure, with iteration = MAX_ITERATIONS, phase
\* Completed and the warning 'Max iterations reached.' in the log.
C13_AnalysisFailureAbsorbed ==
  \A o \in OpIds :
    EveryAnalysisFailed(o)
      => /\ state.qualityScore = 0 /\ state.testResults = <<>>
         /\ state.status # FAILED
         /\ ops[o].refactors = 0
         /\ ops[o].pc = "report"
              => /\ ops[o].absorbed = MAX_ITERATIONS
                 /\ state.iteration = MAX_ITERATIONS
                 /\ state.status = COMPLETED
                 /\ BagIn(LogEntry("Max iterations reached.", "warning"), state.logs)

\* a build whose three analysis calls all failed awaits its report
C13_Witness ==
  \E o \in OpIds :
    /\ EveryAnalysisFailed(o)
    /\ ops[o].pc = "report" /\ ops[o].absorbed = 3
    /\ state.status = COMPLETED /\ state.iteration = 3 /\ state.qualityScore = 0

\* invocation o starts in this step as a build
BuildStarts(o) == ops[o].kind = "none" /\ ops'[o].kind = "build"

\* C14: in the state right after a build starts, iteration and qualityScore are 0,
\* files and testResults are empty, there is no report, the phase is Planning and
\* the metrics series is empty.
C14_BuildReplacesProject ==
  [][\A o \in OpIds :
       BuildStarts(o)
         => /\ state'.iteration = 0 /\ state'.qualityScore = 0
            /\ state'.files = <<>> /\ state'.testResults = <<>>
            /\ state'.report = NoReport
            /\ state'.status = PLANNING
            /\ metricsData' = <<>>]_vars

\* a second build has just started over the Project of a first one that was
\* stopped while it generated its artifacts
C14_Witness ==
  /\ ops[1].kind = "build" /\ ops[1].stoppedCoding
  /\ ops[2].kind = "build" /\ ops[2].pc = "plan"
  /\ state.status = PLANNING /\ state.files = <<>> /\ metricsData = <<>>

Names(fs) == { fs[j].name : j \in 1..Len(fs) }

\* the content the last entry of ch that names nm gives
LastContent(ch, nm) ==
  ch[CHOOSE k \in 1..Len(ch) :
       ch[k].name = nm /\ \A h \in (k + 1)..Len(ch) : ch[h].name # nm].content

\* new is old with the entries of ch merged in, as C15 has it
MergedAs(old, ch, new) ==
  /\ Len(new) = Len(old) + Cardinality(Names(ch) \ Names(old))
  /\ \A j \in 1..Len(old) :
       /\ new[j].name = old[j].name
       /\ new[j].language = old[j].language
       /\ new[j].status = old[j].status
       /\ new[j].content = IF old[j].name \in Names(ch)
                           THEN LastContent(ch, old[j].name)
                           ELSE old[j].content
  /\ \A j \in (Len(old) + 1)..Len(new) :
       /\ new[j].name \in Names(ch) \ Names(old)
       /\ new[j].status = "created"
       /\ new[j].content = LastContent(ch, new[j].name)
  /\ \A i, j \in 1..Len(new) : i # j => new[i].name # new[j].name

\* C15: the artifacts a refinement stores are the name-unique artifacts it was
\* given with the response merged in: an entry naming an existing artifact
\* replaces that artifact's content only; the entries naming a new artifact
\* append it once, with status created; the names stay unique.
C15_MergeByName ==
  \A o \in OpIds :
    (ops[o].kind = "refine" /\ ops[o].pc = "mtest")
      => MergedAs(ops[o].cfiles, ops[o].changes, state.files)

\* a response that names the same new artifact twice and an existing one has been
\* merged into two artifacts
C15_Witness ==
  \E o \in OpIds :
    /\ ops[o].kind = "refine" /\ ops[o].pc = "mtest"
    /\ Len(ops[o].cfiles) = 2 /\ Len(state.files) = 3
    /\ Len(ops[o].changes) = 2
    /\ ops[o].changes[1].name = NewFileName /\ ops[o].changes[2].name = NewFileName
    /\ state.files[3].content = "refined again"

\* a user message is accepted in this step: handleSendMessage runs
SendStep ==
  /\ nUser' # nUser
  /\ Len(messages') > Len(messages)
  /\ messages'[Len(messages) + 1] = Message("user", "request")

\* C16: an accepted message starts a new build (phase Planning) when the phase is
\* Idle or Stopped or there is no artifact; otherwise, when the phase is
\* Completed, Failed, Testing or Coding, it starts a refinement (phase Refining)
\* that leaves the artifacts in place and takes them as its input.
C16_DispatchRouting ==
  [][SendStep =>
       LET o == nOps + 1
       IN  IF state.status \in {IDLE, STOPPED} \/ state.files = <<>>
           THEN /\ ops'[o].kind = "build" /\ ops'[o].pc = "plan"
                /\ state'.status = PLANNING
           ELSE state.status \in {COMPLETED, FAILED, TESTING, CODING}
                  => /\ ops'[o].kind = "refine" /\ ops'[o].pc = "refine"
                     /\ state'.status = REFINING
                     /\ state'.files = state.files
                     /\ ops'[o].cfiles = state.files]_vars

\* a message sent in phase Coding has started a refinement of the artifacts the
\* build is generating
C16_Witness ==
  /\ ops[1].kind = "build" /\ ops[1].pc \in {"gen", "pause"}
  /\ ops[2].kind = "refine" /\ ops[2].pc = "refine"
  /\ state.status = REFINING
  /\ state.files # <<>> /\ ops[2].cfiles = state.files

\* C17: handleSendMessage called in phase Planning or Refining rejects the input:
\* it starts nothing and leaves the Project, the Conversation and the
\* cancellation flag as they are.
C17_InputRejected ==
  [][(nUser' # nUser /\ state.status \in {PLANNING, REFINING})
       => UNCHANGED <<state, messages, abortController, ops>>]_vars

\* invocation o is a dispatched user turn whose operation has finished
FinishedTurn(o) == ops[o].kind \in {"build", "refine"} /\ ops[o].pc = "done"

\* C18: every dispatched user turn, a new build or a refinement, has appended
\* exactly one agent message to the Conversation once its operation has finished
\* by success, cancellation or error.
C18_OneAgentMessagePerTurn ==
  \A o \in OpIds : FinishedTurn(o) => ops[o].said = 1

\* C19: every accepted turn whose operation has finished has contributed at least
\* one agent message next to its user message, a refinement cancelled by STOP
\* included, so that N finished turns leave no fewer than 2N messages.
C19_AgentMessageEveryTurn ==
  \A o \in OpIds : FinishedTurn(o) => ops[o].said >= 1

GenericFailure == Message("agent", "I encountered a critical error.")

\* C20: when the plan, refactor or report call of a build is rejected and STOP
\* has not been pressed, the build ends in that step without another call, an
\* error entry is added to the log, the phase becomes Failed, and the one message
\* appended to the Conversation is the fixed text.
C20_FailureAbortsBuild ==
  [][\A o \in OpIds :
       (/\ ops[o].kind = "build" /\ InFlight(o)
        /\ ~abortController
        /\ ops'[o].rejected)
         => /\ ops'[o].pc = "done" /\ ops'[o].outcome = "failed"
            /\ state'.status = FAILED
            /\ NewErrorLog
            /\ messages' = Append(messages, GenericFailure)]_vars

\* a build whose refactor or report call was rejected has ended Failed with its
\* artifacts kept and the fixed text last in the Conversation
C20_Witness ==
  \E o \in OpIds :
    /\ ops[o].kind = "build" /\ ops[o].rejected /\ ops[o].outcome = "failed"
    /\ state.status = FAILED /\ state.files # <<>>
    /\ ~abortController
    /\ messages # <<>> /\ messages[Len(messages)] = GenericFailure

\* a generation of build o failed: an artifact up to the current one holds the
\* placeholder comment
GenerationFailed(op) ==
  \E j \in 1..Len(op.currentFiles) :
    j <= op.i /\ op.currentFiles[j].content = ErrorPlaceholder

\* C21: no return of generateFileContent ends the build or changes the phase:
\* the artifact gets status created and the build goes to the pacing delay; when
\* the generation failed its content is the non-empty placeholder.  After a
\* failed generation and with STOP not pressed, the build goes on to the next
\* artifact of the plan or, after the last one, to Testing.
C21_GenerationFailureAbsorbed ==
  [][\A o \in OpIds :
       /\ (ops[o].kind = "build" /\ ops[o].pc = "gen" /\ Moved(o))
            => /\ ops'[o].pc = "pause" /\ ops'[o].i = ops[o].i
               /\ \E content \in Answers.gen :
                    ops'[o].currentFiles =
                      [ops[o].currentFiles EXCEPT ![ops[o].i] =
                         [ops[o].plan[ops[o].i] EXCEPT !.content = content,
                                                        !.status = "created"]]
               /\ ErrorPlaceholder # ""
               /\ state'.files = ops'[o].currentFiles
               /\ state'.status = state.status /\ state'.status # FAILED
       /\ (/\ ops[o].kind = "build" /\ ops[o].pc = "pause" /\ Moved(o)
           /\ GenerationFailed(ops[o])
           /\ ~abortController)
            => /\ ops'[o].currentFiles = ops[o].currentFiles
               /\ state'.files = state.files
               /\ IF ops[o].i < Len(ops[o].currentFiles)
                  THEN ops'[o].pc = "gen" /\ ops'[o].i = ops[o].i + 1
                       /\ state'.status = state.status
                  ELSE ops'[o].pc = "analyze" /\ state'.status = TESTING]_vars

\* a build whose first generation failed has generated its second artifact and
\* awaits its first analysis in phase Testing
C21_Witness ==
  \E o \in OpIds :
    /\ ops[o].kind = "build" /\ ops[o].pc = "analyze" /\ ops[o].passes = 1
    /\ state.status = TESTING
    /\ Len(state.files) = 2
    /\ state.files[1].content = ErrorPlaceholder /\ state.files[1].status = "created"
    /\ state.files[2].content = "code" /\ state.files[2].status = "created"

NewWarningLog ==
  \E e \in BagToSet(state'.logs) :
    e.type = "warning" /\ CopiesIn(e, state'.logs) > CopiesIn(e, state.logs)

\* invocation o absorbed a failed generation or a failed analysis in this step
Absorbed(o) ==
  \/ /\ ops[o].pc = "gen" /\ ops'[o].pc = "pause"
     /\ ops'[o].currentFiles[ops[o].i].content = ErrorPlaceholder
  \/ ops[o].pc = "analyze" /\ ops'[o].absorbed > ops[o].absorbed
  \/ /\ ops[o].pc = "mtest" /\ ops'[o].pc = "done" /\ ~ops'[o].rejected
     /\ state'.qualityScore = 0 /\ state'.testResults = <<>>

\* C22: a step of a build or manual test that absorbs a failed generation or a
\* failed analysis adds a warning entry to the Project's log.
C22_AbsorbedFailureLogged ==
  [][\A o \in OpIds : Absorbed(o) => NewWarningLog]_vars

RefineFailureNotice == Message("agent", "I couldn't apply those changes.")

\* C23: when the refine call of a refinement is rejected, the turn ends with
\* files, testResults, qualityScore, iteration and report as they were, the one
\* error notice appended to the Conversation, and the phase the Project had
\* when the request was sent.
C23_RefineFailureKeepsProject ==
  [][\A o \in OpIds :
       (ops[o].kind = "refine" /\ ops[o].pc = "refine" /\ ops'[o].rejected)
         => /\ ops'[o].pc = "done"
            /\ state'.files = ops[o].cfiles
            /\ state'.testResults = state.testResults
            /\ state'.qualityScore = state.qualityScore
            /\ state'.iteration = state.iteration
            /\ state'.report = state.report
            /\ messages' = Append(messages, RefineFailureNotice)
            /\ state'.status = ops[o].before]_vars

\* C24: with the controls gated as rendered, the analysis call of a manual test
\* is never in flight while a build or a refinement started by a message is
\* unfinished.
C24_ManualTestSerialized ==
  \A t, o \in OpIds :
    (ops[t].kind = "mtest" /\ ops[t].pc = "mtest")
      => ~(ops[o].kind \in {"build", "refine"} /\ InFlight(o))

\* C25: in every reachable state the metrics series is strictly increasing in
\* iteration from its first element to its last.
C25_MetricsIncreasing ==
  \A j \in 1..(Len(metricsData) - 1) :
    metricsData[j].iteration < metricsData[j + 1].iteration

\* a build starts, or the user confirms New Project, in this step
ProjectReset ==
  \/ \E o \in OpIds : ops[o].kind = "none" /\ ops'[o].kind = "build"
  \/ nUser' # nUser /\ state' = INITIAL_STATE

\* C26: the Project's iteration counter is 0 when a build starts, changes only
\* by growing by one, which it does at every analysis pass of a build's loop, and
\* is otherwise only reset to 0 by the start of a build or by New Project;
\* refinements and manual tests leave it as it is.
C26_IterationCounter ==
  [][/\ ProjectReset => state'.iteration = 0
     /\ ~ProjectReset =>
          /\ state'.iteration \in {state.iteration, state.iteration + 1}
          /\ \A o \in OpIds :
               /\ (ops[o].kind = "build" /\ ops'[o].passes = ops[o].passes + 1)
                    => state'.iteration = state.iteration + 1
               /\ (ops[o].kind \in {"refine", "mtest"} /\ ops'[o] # ops[o])
                    => state'.iteration = state.iteration]_vars

\* build o made the live Project: no build started after it and New Project was
\* not confirmed since it started
LiveBuild(o) ==
  /\ ops[o].kind = "build" /\ ~ops[o].reset
  /\ \A p \in OpIds : p > o => ops[p].kind # "build"

\* C27: in every reachable state the report is present only if the build that
\* made the live Project completed; it is absent from a Project whose build
\* failed, was stopped or is still running, and from the fresh Project of a new
\* build or of New Project.
C27_ReportOnlyAfterCompletion ==
  state.report # NoReport
    => \E o \in OpIds : LiveBuild(o) /\ ops[o].outcome = "completed"

\* the phase graph: Idle/Stopped -> Planning -> Coding -> Testing <-> Refining,
\* Testing -> Completed, Completed/Failed/Testing/Coding -> Refining, a
\* non-terminal phase -> Stopped, any phase -> Failed
PhaseGraph ==
  { <<IDLE, PLANNING>>, <<STOPPED, PLANNING>>, <<PLANNING, CODING>>,
    <<CODING, TESTING>>, <<TESTING, REFINING>>, <<TESTING, COMPLETED>>,
    <<REFINING, TESTING>>, <<COMPLETED, REFINING>>, <<FAILED, REFINING>>,
    <<CODING, REFINING>> }
  \cup { <<p, STOPPED>> : p \in {IDLE, PLANNING, CODING, TESTING, REFINING} }
  \cup { <<p, FAILED>> : p \in AgentStatus }

\* the pairs of phases joined by a path of at least one edge of R
RECURSIVE PhasePaths(_)
PhasePaths(R) ==
  LET R2 == R \cup { <<g[1][1], g[2][2]>> : g \in { h \in R \X R : h[1][2] = h[2][1] } }
  IN  IF R2 = R THEN R ELSE PhasePaths(R2)

AllowedPhaseChanges == PhasePaths(PhaseGraph)

\* C28: every phase change is an edge of the phase graph or, where one piece of
\* a handler sets the phase more than once, a path of it; in particular the
\* phase never goes Refining -> Idle or Testing -> Idle.  (New Project, which
\* replaces the Project, is not counted as a phase change.)
C28_PhaseGraph ==
  [][(state'.status # state.status /\ ~(nUser' # nUser /\ state' = INITIAL_STATE))
       => <<state.status, state'.status>> \in AllowedPhaseChanges]_vars

\* C29: every call returning, every started build, refinement or manual test
\* finishes, and whenever the phase is busy (Planning, Coding, Testing,
\* Refining) it later is one of Completed, Failed, Stopped, Idle.
C29_EveryOperationFinishes ==
  /\ \A o \in OpIds : InFlight(o) ~> ~InFlight(o)
  /\ isBusy ~> ~isBusy

\* a build has completed, and so has a refinement with its test run; nothing is
\* in flight and the phase is not busy
C29_Witness ==
  /\ \E o \in OpIds : ops[o].kind = "build" /\ ops[o].outcome = "completed"
  /\ \E o \in OpIds : ops[o].kind = "refine" /\ ops[o].outcome = "completed"
  /\ \A o \in OpIds : ~InFlight(o)
  /\ ~isBusy

\* s is t with entries appended
Extends(t, s) == Len(s) >= Len(t) /\ SubSeq(s, 1, Len(t)) = t

\* the user confirms New Project in this step
NewProjectStep == nUser' # nUser /\ state' = INITIAL_STATE /\ messages' = <<>>

\* C30: the Conversation only grows, except that New Project empties it; and
\* while the Conversation is empty and the Project is the initial one, as after
\* New Project, no step but a user event changes either.
C30_ConversationResetOnly ==
  [][/\ Extends(messages, messages') \/ NewProjectStep
     /\ (nUser' = nUser /\ state = INITIAL_STATE /\ messages = <<>>)
          => (state' = state /\ messages' = messages)]_vars

\* C31: a build sets the phase to Completed only once the report is stored: in
\* every state a build has brought to phase Completed the report is present,
\* and no step takes the phase from Completed to Failed.
C31_CompletedAfterReport ==
  [][/\ (state'.status = COMPLETED /\ \E o \in OpIds : ops'[o].kind = "build")
          => state'.report # NoReport
     /\ state.status = COMPLETED => state'.status # FAILED]_vars

\* the artifacts of files a Refining pass may refactor, by index: not json and
\* with content
Eligible(files) ==
  { j \in 1..Len(files) : files[j].language # "json" /\ files[j].content # "" }

\* the targets of a pass: the first three eligible artifacts
TargetIdx(files) ==
  { j \in Eligible(files) : Cardinality({ h \in Eligible(files) : h < j }) < 3 }

\* the index of the k-th target
KthTarget(files, k) ==
  CHOOSE j \in TargetIdx(files) : Cardinality({ h \in TargetIdx(files) : h < j }) = k - 1

\* C32: a Refining pass of a build takes as targets the first (at most) three
\* artifacts, in order, that are not json and have content; it calls refactor
\* once per target in that order; each return sets the target's status to
\* verified and its content to the answer (the old content when the answer is
\* empty) and leaves every other artifact as it was.
C32_RefactorTargets ==
  [][\A o \in OpIds :
       /\ (ops[o].kind = "build" /\ ops'[o].refinings = ops[o].refinings + 1)
            => LET files == state'.files
                   ftf == ops'[o].filesToFix
               IN  /\ Len(ftf) = Cardinality(TargetIdx(files))
                   /\ \A k \in 1..Len(ftf) : ftf[k] = files[KthTarget(files, k)]
                   /\ ops'[o].k = 1
                   /\ ops'[o].pc = IF ftf = <<>> THEN "analyze" ELSE "refactor"
       /\ (ops[o].kind = "build" /\ ops[o].pc = "refactor" /\ Moved(o)
           /\ ~abortController)
            => LET k == ops[o].k
                   ftf == ops[o].filesToFix
                   j == CHOOSE h \in 1..Len(state.files) : state.files[h].name = ftf[k].name
               IN  /\ Len(state'.files) = Len(state.files)
                   /\ state'.files[j].status = "verified"
                   /\ state'.files[j].content \in {RefactoredText, ftf[k].content}
                   /\ state'.files[j].name = ftf[k].name
                   /\ state'.files[j].language = ftf[k].language
                   /\ \A h \in 1..Len(state.files) :
                        h # j => state'.files[h] = state.files[h]
                   /\ ops'[o].filesToFix = ftf
                   /\ IF k < Len(ftf)
                      THEN ops'[o].pc = "refactor" /\ ops'[o].k = k + 1
                      ELSE ops'[o].pc = "analyze"]_vars

\* a Refining pass over four eligible artifacts has ended: the first three are
\* verified and refactored, the fourth is as generated
C32_Witness ==
  \E o \in OpIds :
    /\ ops[o].kind = "build" /\ ops[o].pc = "analyze" /\ ops[o].passes = 2
    /\ ops[o].refactors = 3
    /\ Len(state.files) = 4
    /\ \A j \in 1..3 : /\ state.files[j].status = "verified"
                       /\ state.files[j].content = RefactoredText
    /\ state.files[4].status = "created" /\ state.files[4].content = "code"
    /\ state.files[4].language # "json"

\* The coding loop of build o in this step.  A generateFileContent call starts
\* only after the plan (for artifact 1) or after the pacing delay of artifact
\* k - 1 (for artifact k); it is given artifacts 1..k-1 with status created
\* (and, when filled, with content) and artifacts k..n as planned; its return
\* publishes artifacts 1..k created and the rest as planned; the loop is left for
\* Testing only after artifact n.
CodingInOrder(o, filled) ==
  /\ (ops[o].kind \in {"none", "build"} /\ ops'[o].kind = "build"
      /\ ops'[o].pc = "gen" /\ ops[o].pc # "gen")
       => LET k == ops'[o].i
              cf == ops'[o].currentFiles
          IN  /\ ops[o].pc \in {"plan", "pause"}
              /\ k = IF ops[o].pc = "plan" THEN 1 ELSE ops[o].i + 1
              /\ k <= Len(cf) /\ Len(cf) = Len(ops'[o].plan)
              /\ \A j \in 1..(k - 1) :
                   cf[j].status = "created" /\ (filled => cf[j].content # "")
              /\ \A j \in k..Len(cf) : cf[j] = ops'[o].plan[j]
  /\ (ops[o].kind = "build" /\ ops[o].pc = "gen" /\ Moved(o))
       => LET k == ops[o].i
          IN  /\ ops'[o].pc = "pause" /\ ops'[o].i = k
              /\ state'.files = ops'[o].currentFiles
              /\ Len(state'.files) = Len(ops[o].plan)
              /\ \A j \in 1..k :
                   /\ state'.files[j].status = "created"
                   /\ state'.files[j].name = ops[o].plan[j].name
              /\ \A j \in (k + 1)..Len(state'.files) : state'.files[j] = ops[o].plan[j]
  /\ (ops[o].kind = "build" /\ ops[o].pc = "pause" /\ ops'[o].pc \notin {"pause", "gen", "done"})
       => ops[o].i = Len(ops[o].currentFiles)

\* C33: during Coding generateFileContent is called once per planned artifact,
\* in plan order, one call at a time; the k-th call is given artifacts 1..k-1
\* with content and status created and artifacts k..n still pending, and after
\* its return the published files have exactly artifacts 1..k created.
C33_GeneratedWithContent ==
  [][/\ \A o \in OpIds : CodingInOrder(o, TRUE)
     /\ Cardinality({o \in OpIds : ops'[o].pc = "gen"}) <= 1]_vars

\* C33 as amended: as above, except that artifacts 1..k-1 hold whatever their
\* responses gave, which is no content at all when a response was empty.
C33_GeneratedInOrder ==
  [][/\ \A o \in OpIds : CodingInOrder(o, FALSE)
     /\ Cardinality({o \in OpIds : ops'[o].pc = "gen"}) <= 1]_vars

\* the call for the second artifact of a plan of two is in flight: the first
\* artifact is created with content, the second is pending
C33_Witness ==
  \E o \in OpIds :
    /\ ops[o].kind = "build" /\ ops[o].pc = "gen" /\ ops[o].i = 2
    /\ Len(state.files) = 2
    /\ state.files[1].status = "created" /\ state.files[1].content = "code"
    /\ state.files[2].status = "pending" /\ state.files[2].content = ""
    /\ state.status = CODING

\* C34: a refinement whose refine call succeeds makes its one analysis call next
\* and no refactor call; the return of the analysis replaces testResults and
\* qualityScore with its result, appends one snapshot to the metrics series and
\* ends the turn; the iteration counter and the merged artifacts stay as they
\* are throughout.
C34_RefineThenOneAnalysis ==
  [][\A o \in OpIds :
       /\ (ops[o].kind = "refine" /\ ops[o].pc = "refine" /\ Moved(o)
           /\ ~ops'[o].rejected /\ ~abortController)
            => /\ ops'[o].pc = "mtest"
               /\ ops'[o].refactors = 0 /\ ops'[o].passes = 0
               /\ state'.iteration = state.iteration
               /\ metricsData' = metricsData
       /\ (ops[o].kind = "refine" /\ ops[o].pc = "mtest" /\ Moved(o))
            => /\ ops'[o].pc = "done" /\ ops'[o].outcome = "completed"
               /\ ops'[o].refactors = 0
               /\ \E a \in Answers.mtest :
                    /\ state'.testResults = a.results
                    /\ state'.qualityScore = a.qualityScore
                    /\ metricsData' =
                         Append(metricsData,
                                ChartDataPoint(metricsData[Len(metricsData)].iteration + 1,
                                               a.qualityScore, Len(Failing(a.results))))
               /\ state'.iteration = state.iteration
               /\ state'.files = state.files]_vars

\* a refinement has ended with the result of its analysis stored, a second
\* snapshot in the metrics series and the iteration counter still 1
C34_Witness ==
  \E o \in OpIds :
    /\ ops[o].kind = "refine" /\ ops[o].outcome = "completed"
    /\ state.testResults = <<Finding(0, FALSE)>> /\ state.qualityScore = 60
    /\ metricsData = <<ChartDataPoint(1, 97, 0), ChartDataPoint(2, 60, 1)>>
    /\ state.iteration = 1

\* C35: the analysis call that follows a successful refinement is given the
\* merged artifacts the refinement has just written to the Project.
C35_AnalysisOfMergedFiles ==
  \A o \in OpIds :
    (ops[o].kind = "refine" /\ ops[o].pc = "mtest")
      => ops[o].cfiles = state.files

\* C36: a refinement sent in phase Completed whose refine call succeeds, STOP
\* not pressed, takes the phase to Refining when it starts, to Testing when the
\* refine call returns and back to Completed when its analysis returns, and the
\* report of the earlier build is kept at every step.
C36_CompletedCycle ==
  [][\A o \in OpIds :
       /\ (ops[o].kind = "none" /\ ops'[o].kind = "refine" /\ state.status = COMPLETED)
            => /\ state'.status = REFINING /\ ops'[o].pc = "refine"
               /\ state'.report = state.report
       /\ (ops[o].kind = "refine" /\ ops[o].before = COMPLETED /\ ops[o].pc = "refine"
           /\ Moved(o) /\ ~ops'[o].rejected /\ ~abortController)
            => /\ state.status = REFINING /\ state'.status = TESTING
               /\ ops'[o].pc = "mtest"
               /\ state'.report = state.report
       /\ (ops[o].kind = "refine" /\ ops[o].before = COMPLETED /\ ops[o].pc = "mtest"
           /\ Moved(o))
            => /\ state.status = TESTING /\ state'.status = COMPLETED
               /\ ops'[o].pc = "done"
               /\ state'.report = state.report]_vars

\* a refinement of a Completed Project has ended: the phase is Completed again,
\* an artifact has the refined content and the stored report is still there
C36_Witness ==
  \E o \in OpIds :
    /\ ops[o].kind = "refine" /\ ops[o].outcome = "completed"
    /\ state.status = COMPLETED
    /\ state.report = ReportText
    /\ \E j \in 1..Len(state.files) : state.files[j].content = "refined"

\* C37: in every reachable state, the state restored at start-up included, a
\* busy phase (Planning, Coding, Testing, Refining) has a build, a refinement
\* or a manual test in flight.
C37_BusyMeansRunning ==
  isBusy => \E o \in OpIds : InFlight(o)


\* C39: after STOP was pressed during a build, no step of that build sets the
\* phase to Failed or appends the "critical error" message, also when the call
\* that was pending at the stop (plan, refactor) fails.
C39_StoppedBuildNeverFails ==
  [][\A o \in OpIds :
       (ops[o].kind = "build" /\ ops[o].stopped /\ Moved(o))
         => /\ state'.status # FAILED
            /\ messages' # Append(messages, GenericFailure)]_vars


\* the artifact called name is the one this step of build o writes again: the
\* generation that returns, or the refactoring that returns, is of that artifact
Rewritten(o, name) ==
  \/ /\ ops[o].pc = "gen"
     /\ ops[o].currentFiles[ops[o].i].name = name
  \/ /\ ops[o].pc = "refactor"
     /\ ops[o].filesToFix[ops[o].k].name = name

\* C38: a manual edit changes only the content of the artifact with the
\* selected name, and is never lost: a step of a build in flight keeps the
\* edited content of every artifact it does not itself generate or refactor.
C38_EditKept ==
  [][/\ (nUser' # nUser /\ nUser # 0)
         => /\ Len(state'.files) = Len(state.files)
            /\ Cardinality({ j \in 1..Len(state.files) :
                               state'.files[j] # state.files[j] }) <= 1
            /\ \A j \in 1..Len(state.files) :
                 state'.files[j] = [state.files[j] EXCEPT !.content = state'.files[j].content]
     /\ \A o \in OpIds :
          (ops[o].kind = "build" /\ Moved(o))
            => \A j \in 1..Len(state.files) :
                 (state.files[j].content = EditedText /\ ~Rewritten(o, state.files[j].name))
                   => \E h \in 1..Len(state'.files) :
                        /\ state'.files[h].name = state.files[j].name
                        /\ state'.files[h].content = EditedText]_vars

=============================================================================
